---- MODULE Spec2Model ----
(***************************************************************************)
(* Heartbeat sender of qupath-extension-qpsc, in its two variants:         *)
(*   variant "A" = heartbeat.py, variant "B" = heartbeat_client.py.        *)
(* One process: create a socket, connect once, then loop sendall / sleep   *)
(* until a send raises or the operator interrupts.                         *)
(*                                                                         *)
(* Environment: the connect call and each sendall either return or raise;  *)
(* the operator may interrupt (KeyboardInterrupt) at any statement from    *)
(* the connect call on; the peer may tear the connection down.  peerClosed *)
(* means that the teardown is visible to the local socket, so that a write *)
(* raises one of the three disconnect errors (which one is the platform's  *)
(* choice).  Writing to standard output is assumed not to fail.            *)
(***************************************************************************)
EXTENDS Integers, Sequences, FiniteSets, TLC

VARIABLES variant, pc, sock, sockCount, connectAttempts, established,
          peerClosed, sends, sleeps, wire, out, exitStatus, cause, uncaught

vars == <<variant, pc, sock, sockCount, connectAttempts, established,
          peerClosed, sends, sleeps, wire, out, exitStatus, cause, uncaught>>

\* Counters and the recorded wire contents saturate at this many heartbeats.
MaxSends == 3

Variants == {"A", "B"}

\* b"heartbeat\n"
Heartbeat == <<104, 101, 97, 114, 116, 98, 101, 97, 116, 10>>

\* ConnectionResetError, ConnectionAbortedError, BrokenPipeError
DisconnectKinds == {"reset", "aborted", "brokenpipe"}

\* What s.sendall can do: return, raise a disconnect error once the peer's
\* teardown is visible, or raise some other OSError (e.g. a timeout).
SendOutcomes(closed) == IF closed THEN DisconnectKinds ELSE {"ok", "oserror"}

\* Exit status of the interpreter when KeyboardInterrupt propagates out of
\* main: 130 (death by SIGINT) on current CPython, 1 on older ones.
InterruptStatuses == {1, 130}

\* except clause that matches a raised send error, per variant.
CaughtOnSend(v, err) ==
    IF v = "A" THEN err \in {"brokenpipe", "reset"}
               ELSE err \in {"reset", "aborted", "brokenpipe"}

\* Mutation: A wraps connect in a handler that prints and exits normally.
ConnectFailOutcome_Caught(v) ==
    IF v = "A"
      THEN [status |-> 0, msg |-> <<"could_not_connect">>, uncaught |-> FALSE]
      ELSE [status |-> 1, msg |-> <<"could_not_connect">>, uncaught |-> FALSE]

\* How a failed connect leaves the process: A has no handler around connect,
\* B's "except Exception" prints and calls sys.exit(1).
ConnectFailOutcome(v) ==
    IF v = "A"
      THEN [status |-> 1, msg |-> <<>>, uncaught |-> TRUE]
      ELSE [status |-> 1, msg |-> <<"could_not_connect">>, uncaught |-> FALSE]

\* Mutation: B leaves the loop quietly on every send error.
SendFailOutcome_BreakOnAny(v, err) ==
    IF CaughtOnSend(v, err) \/ v = "B"
      THEN [status |-> 0,
            msg |-> IF v = "A" THEN <<"disconnected">> ELSE <<"lost_connection">>,
            uncaught |-> FALSE]
      ELSE [status |-> 1, msg |-> <<>>, uncaught |-> TRUE]

\* How a raised send error leaves the process.
SendFailOutcome(v, err) ==
    IF CaughtOnSend(v, err)
      THEN [status |-> 0,
            msg |-> IF v = "A" THEN <<"disconnected">> ELSE <<"lost_connection">>,
            uncaught |-> FALSE]
      ELSE IF v = "A"
        THEN [status |-> 1, msg |-> <<>>, uncaught |-> TRUE]
        ELSE [status |-> 1, msg |-> <<"could_not_connect">>, uncaught |-> FALSE]

\* How KeyboardInterrupt raised at statement `at` leaves the process: only
\* A's try block (send, sleep) has a handler for it; KeyboardInterrupt is
\* not an Exception, so B's handlers never match.
InterruptOutcome(v, at, st) ==
    IF v = "A" /\ at \in {"send", "sleep"}
      THEN [status |-> 0, msg |-> <<"interrupted">>, uncaught |-> FALSE]
      ELSE [status |-> st, msg |-> <<>>, uncaught |-> TRUE]

Init ==
    /\ variant \in Variants
    /\ pc = "start"
    /\ sock = "none"
    /\ sockCount = 0
    /\ connectAttempts = 0
    /\ established = FALSE
    /\ peerClosed = FALSE
    /\ sends = 0
    /\ sleeps = 0
    /\ wire = <<>>
    /\ out = <<>>
    /\ exitStatus = -1
    /\ cause = "none"
    /\ uncaught = FALSE

\* Mutation: the socket is left open on the way out.
Terminate_NoClose(o, c) ==
    /\ pc' = "done"
    /\ sock' = sock
    /\ out' = out \o o.msg
    /\ exitStatus' = o.status
    /\ uncaught' = o.uncaught
    /\ cause' = c

\* Leaving main: the with statement (A) or the finally clause (B) closes
\* the socket, and the process exits.
Terminate(o, c) ==
    /\ pc' = "done"
    /\ sock' = "closed"
    /\ out' = out \o o.msg
    /\ exitStatus' = o.status
    /\ uncaught' = o.uncaught
    /\ cause' = c

\* socket.socket(AF_INET, SOCK_STREAM)
CreateSocket ==
    /\ pc = "start"
    /\ pc' = "connect"
    /\ sock' = "open"
    /\ sockCount' = sockCount + 1
    /\ UNCHANGED <<variant, connectAttempts, established, peerClosed, sends,
                   sleeps, wire, out, exitStatus, cause, uncaught>>

\* s.connect(...) returns
ConnectOk ==
    /\ pc = "connect"
    /\ connectAttempts' = connectAttempts + 1
    /\ established' = TRUE
    /\ pc' = "print"
    /\ UNCHANGED <<variant, sock, sockCount, peerClosed, sends, sleeps, wire,
                   out, exitStatus, cause, uncaught>>

\* Mutation: a failed connect is swallowed and the loop is entered anyway.
ConnectFail_Continue ==
    /\ pc = "connect"
    /\ connectAttempts' = connectAttempts + 1
    /\ pc' = "print"
    /\ UNCHANGED <<variant, sock, sockCount, established, peerClosed, sends,
                   sleeps, wire, out, exitStatus, cause, uncaught>>

\* s.connect(...) raises
ConnectFail ==
    /\ pc = "connect"
    /\ connectAttempts' = connectAttempts + 1
    /\ Terminate(ConnectFailOutcome(variant), "connect_fail")
    /\ UNCHANGED <<variant, sockCount, established, peerClosed, sends, sleeps,
                   wire>>

\* print("Python: Connected to QuPath workflow, sending heartbeats.")
PrintConnected ==
    /\ pc = "print"
    /\ out' = Append(out, "connected")
    /\ pc' = "send"
    /\ UNCHANGED <<variant, sock, sockCount, connectAttempts, established,
                   peerClosed, sends, sleeps, wire, exitStatus, cause, uncaught>>

\* Mutation: the sleep is skipped after a send.
SendOk_NoSleep ==
    /\ pc = "send"
    /\ "ok" \in SendOutcomes(peerClosed)
    /\ wire' = IF sends < MaxSends THEN wire \o Heartbeat ELSE wire
    /\ sends' = IF sends < MaxSends THEN sends + 1 ELSE sends
    /\ pc' = "send"
    /\ UNCHANGED <<variant, sock, sockCount, connectAttempts, established,
                   peerClosed, sleeps, out, exitStatus, cause, uncaught>>

\* s.sendall(b"heartbeat\n") returns
SendOk ==
    /\ pc = "send"
    /\ "ok" \in SendOutcomes(peerClosed)
    /\ wire' = IF sends < MaxSends THEN wire \o Heartbeat ELSE wire
    /\ sends' = IF sends < MaxSends THEN sends + 1 ELSE sends
    /\ pc' = "sleep"
    /\ UNCHANGED <<variant, sock, sockCount, connectAttempts, established,
                   peerClosed, sleeps, out, exitStatus, cause, uncaught>>

\* s.sendall(b"heartbeat\n") raises
SendFail ==
    /\ pc = "send"
    /\ \E err \in SendOutcomes(peerClosed) \ {"ok"} :
          Terminate(SendFailOutcome(variant, err), err)
    /\ UNCHANGED <<variant, sockCount, connectAttempts, established,
                   peerClosed, sends, sleeps, wire>>

\* Mutation: the loop body runs once and main returns.
Sleep_Once ==
    /\ pc = "sleep"
    /\ sleeps' = IF sleeps < MaxSends THEN sleeps + 1 ELSE sleeps
    /\ Terminate([status |-> 0, msg |-> <<>>, uncaught |-> FALSE], "none")
    /\ UNCHANGED <<variant, sockCount, connectAttempts, established,
                   peerClosed, sends, wire>>

\* time.sleep(2) returns, and the while True loop goes round
Sleep ==
    /\ pc = "sleep"
    /\ sleeps' = IF sleeps < MaxSends THEN sleeps + 1 ELSE sleeps
    /\ pc' = "send"
    /\ UNCHANGED <<variant, sock, sockCount, connectAttempts, established,
                   peerClosed, sends, wire, out, exitStatus, cause, uncaught>>

\* KeyboardInterrupt raised in connect, print, sendall or sleep
Interrupt ==
    /\ pc \in {"connect", "print", "send", "sleep"}
    /\ \E st \in InterruptStatuses :
          Terminate(InterruptOutcome(variant, pc, st), "interrupt")
    /\ UNCHANGED <<variant, sockCount, connectAttempts, established,
                   peerClosed, sends, sleeps, wire>>

\* The peer resets, aborts or closes the established connection.
PeerClose ==
    /\ established
    /\ pc \in {"print", "send", "sleep"}
    /\ ~peerClosed
    /\ peerClosed' = TRUE
    /\ UNCHANGED <<variant, pc, sock, sockCount, connectAttempts, established,
                   sends, sleeps, wire, out, exitStatus, cause, uncaught>>

\* The statements of main, as opposed to what the environment does to it.
ProgramStep ==
    CreateSocket \/ ConnectOk \/ ConnectFail \/ PrintConnected \/ SendOk
      \/ SendFail \/ Sleep

Next ==
    \/ CreateSocket
    \/ ConnectOk
    \/ ConnectFail
    \/ PrintConnected
    \/ SendOk
    \/ SendFail
    \/ Sleep
    \/ Interrupt
    \/ PeerClose

Spec == Init /\ [][Next]_vars

\* The single thread keeps running: a blocking call eventually returns or raises.
LiveSpec == Init /\ [][Next]_vars /\ WF_vars(ProgramStep)

TypeOK ==
    /\ variant \in Variants
    /\ pc \in {"start", "connect", "print", "send", "sleep", "done"}
    /\ sock \in {"none", "open", "closed"}
    /\ sockCount \in 0..1
    /\ connectAttempts \in 0..1
    /\ established \in BOOLEAN
    /\ peerClosed \in BOOLEAN
    /\ sends \in 0..MaxSends
    /\ sleeps \in 0..MaxSends
    /\ exitStatus \in {-1, 0, 1, 130}
    /\ cause \in {"none", "connect_fail", "interrupt", "oserror"} \cup DisconnectKinds
    /\ uncaught \in BOOLEAN
----------------------------------------------------------------------------
(* Properties *)

Last(q) == q[Len(q)]

Terminated == pc = "done"

\* C1 (as stated): a send that fails with any of the three disconnect
\* errors is caught in both variants, a disconnect message is the last
\* thing printed, and the process exits with status 0.
C1_DisconnectHandled ==
    (Terminated /\ cause \in DisconnectKinds) =>
        /\ ~uncaught
        /\ exitStatus = 0
        /\ Len(out) > 0
        /\ Last(out) \in {"disconnected", "lost_connection"}

\* C2 (as stated): an operator interrupt at any point after the connection
\* was established is caught in both variants, an interruption message is
\* the last thing printed, and the process exits with status 0.
C2_InterruptHandled ==
    (Terminated /\ cause = "interrupt" /\ established) =>
        /\ ~uncaught
        /\ exitStatus = 0
        /\ Len(out) > 0
        /\ Last(out) = "interrupted"

C4_ConnectFailReported ==
    (Terminated /\ cause = "connect_fail") =>
        /\ Len(out) > 0
        /\ (variant = "B" => exitStatus # 0)
        /\ (variant = "A" => exitStatus = 0)

\* C4 (amended): on a failed connect B prints the error on standard output
\* and exits with status 1; A prints nothing on standard output, the error
\* propagates uncaught and the status is 1.
C4_ConnectFailPerVariant ==
    (Terminated /\ cause = "connect_fail") =>
        /\ (variant = "B" =>
              out = <<"could_not_connect">> /\ exitStatus = 1 /\ ~uncaught)
        /\ (variant = "A" => out = <<>> /\ exitStatus = 1 /\ uncaught)

\* C4 witness: variant A has terminated on a failed connect.
C4_Witness ==
    variant = "A" /\ Terminated /\ cause = "connect_fail" /\ connectAttempts = 1

\* C5: connect is attempted at most once and never again once it has
\* succeeded or the process has ended; a failed attempt ends the process
\* with nothing sent; nothing is sent before connect has succeeded or after
\* the process has terminated.
C5_SingleConnectAttempt ==
    /\ [](/\ connectAttempts <= 1
          /\ (cause = "connect_fail" =>
                Terminated /\ ~established /\ sends = 0 /\ wire = <<>>)
          /\ (~established => sends = 0 /\ wire = <<>>))
    /\ [][(established \/ Terminated) => connectAttempts' = connectAttempts]_vars
    /\ [][Terminated => (wire' = wire /\ sends' = sends)]_vars

\* C5 witness: the single connect attempt has failed and the process has
\* terminated.
C5_Witness ==
    Terminated /\ cause = "connect_fail" /\ connectAttempts = 1 /\ wire = <<>>

\* C6: at most one socket is ever created, and in every terminal state it
\* has been closed.
C6_SocketClosedOnExit ==
    /\ sockCount <= 1
    /\ (sock = "none" <=> sockCount = 0)
    /\ (Terminated => sock = "closed" /\ sockCount = 1)

\* C6 witness: the process has terminated on an uncaught error after the
\* connection was established.
C6_Witness ==
    Terminated /\ uncaught /\ established /\ sock = "closed"

\* C7 (as stated): once the peer has closed no further send succeeds, and
\* the disconnect error raised by the next write ends the process through a
\* handler, not as an uncaught exception.
C7_PeerCloseHandled ==
    /\ [][peerClosed => ~(pc = "send" /\ pc' = "sleep")]_vars
    /\ []((Terminated /\ peerClosed /\ cause \in DisconnectKinds) => ~uncaught)

RECURSIVE Copies(_)
Copies(k) ==
    IF k = 0 THEN <<>>
    ELSE Copies(k - 1) \o <<104, 101, 97, 114, 116, 98, 101, 97, 116, 10>>

\* C8: send and sleep strictly alternate, starting with a send and no sleep
\* before it; every successful send hands the socket exactly heartbeat\n and
\* is followed by the sleep, so the bytes handed over are whole copies of
\* the token.
C8_SendSleepAlternate ==
    /\ [](/\ wire = Copies(sends)
          /\ sleeps <= sends
          /\ (pc \in {"start", "connect", "print"} => sends = 0 /\ sleeps = 0)
          /\ (pc = "send" => sleeps = sends)
          /\ (pc = "sleep" => (sends = sleeps + 1 \/ sleeps = MaxSends)))
    /\ [][(pc = "send" /\ pc' \notin {"send", "done"}) => pc' = "sleep"]_vars
    /\ [][(pc = "send" /\ pc' = "send") => (wire' = wire /\ sends' = sends)]_vars
    /\ [][(wire' # wire) => (pc = "send" /\ pc' = "sleep"
                              /\ wire' = wire \o Copies(1))]_vars
    /\ [][(pc = "sleep" /\ pc' \notin {"sleep", "done"}) => pc' = "send"]_vars
    /\ [][pc = "sleep" => wire' = wire]_vars

\* C8 witness: two heartbeats sent, one sleep between them, the second
\* sleep under way.
C8_Witness ==
    pc = "sleep" /\ sends = 2 /\ sleeps = 1 /\ Len(wire) = 20

\* C9 (as stated): an error raised after the connection that is neither a
\* disconnect error nor an interrupt is not handled in either variant:
\* nothing is printed for it and it propagates uncaught with a non-zero
\* status.
C9_OtherErrorsUncaught ==
    (Terminated /\ cause = "oserror") =>
        /\ uncaught
        /\ exitStatus # 0
        /\ out = <<"connected">>

\* C10: a process that reached Connected terminates only through a send
\* failure or an interrupt; and while connect succeeds, the peer never
\* closes, no send fails and no interrupt occurs, the process never
\* terminates and sends again and again.
C10_ConnectedLeftOnlyByFailure ==
    /\ []((Terminated /\ established) =>
            cause \in DisconnectKinds \cup {"oserror", "interrupt"})
    /\ (([](cause = "none") /\ [](~peerClosed)) =>
            ([](~Terminated) /\ []<><<SendOk>>_vars))

\* C10 witness: the loop has gone round past the bound with no failure, no
\* interrupt and the peer still there.
C10_Witness ==
    /\ pc = "send" /\ sends = MaxSends /\ sleeps = MaxSends
    /\ ~peerClosed /\ cause = "none"
====
